---- MODULE Spec2Model ----
(***************************************************************************)
(* intl-ordinal: ordinal(locale, {gender}) builds a frozen formatter       *)
(* {supports, format}; format(value) normalises the value to               *)
(* (abs, positive) and applies the rule of the locale's language.          *)
(*                                                                         *)
(* JavaScript strings are modelled as sequences of UTF-16 code units.  An  *)
(* ASCII unit is written as the one-character string itself ("t"), every   *)
(* other unit by its code point ("U+7B2C").  Decimal magnitudes are        *)
(* sequences of digits, most significant first, so that BigInt arithmetic  *)
(* is exact at any size.                                                   *)
(***************************************************************************)
EXTENDS Integers, Sequences, FiniteSets, TLC

VARIABLES formatter, value, handed, outcome

vars == <<formatter, value, handed, outcome>>

(***************************************************************************)
(* Bounds of the model.                                                    *)
(***************************************************************************)
\* Every whole number 0..MaxInt is an input, in each accepted form and sign.
MaxInt == 24

(***************************************************************************)
(* Decimal digits and code units.                                          *)
(***************************************************************************)
DigitChars == <<"0", "1", "2", "3", "4", "5", "6", "7", "8", "9">>

DigitChar(d) == DigitChars[d + 1]

IsDigitChar(c) == \E d \in 0..9 : DigitChars[d + 1] = c

DigitVal(c) == CHOOSE d \in 0..9 : DigitChars[d + 1] = c

DigitsToChars(ds) == [i \in 1..Len(ds) |-> DigitChar(ds[i])]

CharsToDigits(cs) == [i \in 1..Len(cs) |-> DigitVal(cs[i])]

Zeros(k) == [i \in 1..k |-> 0]

RECURSIVE NatDigits(_)
NatDigits(k) == IF k < 10 THEN <<k>> ELSE Append(NatDigits(k \div 10), k % 10)

RECURSIVE DigitsNat(_)
DigitsNat(ds) ==
    IF ds = <<>> THEN 0 ELSE 10 * DigitsNat(SubSeq(ds, 1, Len(ds) - 1)) + ds[Len(ds)]

RECURSIVE StripLeadingZeros(_)
StripLeadingZeros(ds) ==
    IF ds = <<>> THEN <<>>
    ELSE IF Head(ds) = 0 THEN StripLeadingZeros(Tail(ds)) ELSE ds

RECURSIVE StripTrailingZeros(_)
StripTrailingZeros(ds) ==
    IF ds = <<>> THEN <<>>
    ELSE IF ds[Len(ds)] = 0 THEN StripTrailingZeros(SubSeq(ds, 1, Len(ds) - 1)) ELSE ds

\* The digits of a whole number without leading zeros; zero is <<0>>.
CanonInt(ds) == IF StripLeadingZeros(ds) = <<>> THEN <<0>> ELSE StripLeadingZeros(ds)

\* Exact remainder of a decimal magnitude by 10^k: the value of its last k digits.
ModPow10(ds, k) ==
    CanonInt(IF Len(ds) <= k THEN ds ELSE SubSeq(ds, Len(ds) - k + 1, Len(ds)))

(***************************************************************************)
(* JavaScript values: null, undefined, number (NaN, +-Infinity, or a       *)
(* finite decimal int.frac with a sign, -0 included), bigint, string.      *)
(***************************************************************************)
Null == [type |-> "null"]

Undefined == [type |-> "undefined"]

NaN == [type |-> "number", cls |-> "nan"]

Inf(neg) == [type |-> "number", cls |-> "inf", neg |-> neg]

Fin(neg, int, frac) ==
    [type |-> "number", cls |-> "fin", neg |-> neg, int |-> int, frac |-> frac]

BigIntV(neg, mag) == [type |-> "bigint", neg |-> neg, mag |-> mag]

StrV(chars) == [type |-> "string", chars |-> chars]

IsNumber(v) == v.type = "number"

IsBigInt(v) == v.type = "bigint"

IsFinite(v) == IsNumber(v) /\ v.cls = "fin"

IsWhole(v) == IsFinite(v) /\ v.frac = <<>>

IsZeroNumber(v) == IsWhole(v) /\ v.int = <<0>>

PosInfinity == Inf(FALSE)

(***************************************************************************)
(* Number::toString(x) in radix 10 (ECMA-262 6.1.6.1.20).  s is the digit  *)
(* string of x, k its length and n the decimal exponent with               *)
(* x = 0.s * 10^n.                                                         *)
(***************************************************************************)
NumberDigits(v) ==
    IF v.int # <<0>> THEN StripTrailingZeros(v.int \o v.frac)
    ELSE StripLeadingZeros(v.frac)

NumberExponent(v) ==
    IF v.int # <<0>> THEN Len(v.int)
    ELSE Len(StripLeadingZeros(v.frac)) - Len(v.frac)

ExponentChars(e) ==
    <<"e">> \o (IF e < 0 THEN <<"-">> ELSE <<"+">>)
            \o DigitsToChars(NatDigits(IF e < 0 THEN -e ELSE e))

PositiveFiniteToString(v) ==
    LET s == NumberDigits(v)
        k == Len(s)
        n == NumberExponent(v)
    IN  IF k <= n /\ n <= 21
            THEN DigitsToChars(s \o Zeros(n - k))
        ELSE IF 0 < n /\ n <= 21
            THEN DigitsToChars(SubSeq(s, 1, n)) \o <<".">>
                    \o DigitsToChars(SubSeq(s, n + 1, k))
        ELSE IF -6 < n /\ n <= 0
            THEN <<"0", ".">> \o DigitsToChars(Zeros(-n) \o s)
        ELSE IF k = 1
            THEN DigitsToChars(s) \o ExponentChars(n - 1)
        ELSE DigitsToChars(<<s[1]>>) \o <<".">> \o DigitsToChars(SubSeq(s, 2, k))
                    \o ExponentChars(n - 1)

NumberToString(v) ==
    IF v.cls = "nan" THEN <<"N", "a", "N">>
    ELSE IF v.cls = "inf"
        THEN (IF v.neg THEN <<"-">> ELSE <<>>) \o <<"I", "n", "f", "i", "n", "i", "t", "y">>
    ELSE IF IsZeroNumber(v) THEN <<"0">>
    ELSE (IF v.neg THEN <<"-">> ELSE <<>>) \o PositiveFiniteToString(v)

BigIntToString(v) == (IF v.neg THEN <<"-">> ELSE <<>>) \o DigitsToChars(v.mag)

\* String(value)
String(v) ==
    CASE v.type = "null" -> <<"n", "u", "l", "l">>
      [] v.type = "undefined" -> <<"u", "n", "d", "e", "f", "i", "n", "e", "d">>
      [] v.type = "number" -> NumberToString(v)
      [] v.type = "bigint" -> BigIntToString(v)
      [] v.type = "string" -> v.chars

(***************************************************************************)
(* StringToNumber, StringToBigInt and parseInt.  The string inputs of      *)
(* the model use the decimal grammar (digits, sign, ".", exponent,         *)
(* "Infinity", spaces) and anything else is not a numeric literal.  The    *)
(* strings whose number is handed on are short enough that the nearest     *)
(* double is the decimal value itself; of a longer string of digits only   *)
(* "is it NaN" is read, and BigInt takes the digits.                       *)
(***************************************************************************)
WhiteSpace == {" "}

RECURSIVE TrimStart(_)
TrimStart(cs) ==
    IF cs # <<>> /\ Head(cs) \in WhiteSpace THEN TrimStart(Tail(cs)) ELSE cs

RECURSIVE TrimEnd(_)
TrimEnd(cs) ==
    IF cs # <<>> /\ cs[Len(cs)] \in WhiteSpace
        THEN TrimEnd(SubSeq(cs, 1, Len(cs) - 1)) ELSE cs

Trim(cs) == TrimEnd(TrimStart(cs))

RECURSIVE DigitPrefixLen(_)
DigitPrefixLen(cs) ==
    IF cs # <<>> /\ IsDigitChar(Head(cs)) THEN 1 + DigitPrefixLen(Tail(cs)) ELSE 0

InfinityChars == <<"I", "n", "f", "i", "n", "i", "t", "y">>

\* The number int.frac * 10^e, as a canonical finite number.
DecimalValue(neg, int, frac, e) ==
    LET all == int \o frac
        p == Len(int) + e
        intD == IF p <= 0 THEN <<0>>
                ELSE IF p >= Len(all) THEN all \o Zeros(p - Len(all))
                ELSE SubSeq(all, 1, p)
        fracD == IF p <= 0 THEN Zeros(-p) \o all
                 ELSE IF p >= Len(all) THEN <<>>
                 ELSE SubSeq(all, p + 1, Len(all))
    IN  Fin(neg, CanonInt(intD), StripTrailingZeros(fracD))

\* StrUnsignedDecimalLiteral: digits [. digits] [e [sign] digits], or NaN.
UnsignedDecimal(neg, u) ==
    LET il == DigitPrefixLen(u)
        r1 == SubSeq(u, il + 1, Len(u))
        hasDot == r1 # <<>> /\ Head(r1) = "."
        r2 == IF hasDot THEN Tail(r1) ELSE r1
        fl == IF hasDot THEN DigitPrefixLen(r2) ELSE 0
        r3 == SubSeq(r2, fl + 1, Len(r2))
        hasExp == r3 # <<>> /\ Head(r3) \in {"e", "E"}
        r4 == IF hasExp THEN Tail(r3) ELSE r3
        expSigned == hasExp /\ r4 # <<>> /\ Head(r4) \in {"+", "-"}
        expNeg == expSigned /\ Head(r4) = "-"
        r5 == IF expSigned THEN Tail(r4) ELSE r4
        el == IF hasExp THEN DigitPrefixLen(r5) ELSE 0
        wellFormed == /\ il + fl > 0
                      /\ IF hasExp THEN el > 0 /\ el = Len(r5) ELSE r3 = <<>>
        e == IF hasExp
                THEN (IF expNeg THEN -1 ELSE 1) * DigitsNat(CharsToDigits(r5))
                ELSE 0
    IN  IF wellFormed
            THEN DecimalValue(neg, CharsToDigits(SubSeq(u, 1, il)),
                              CharsToDigits(SubSeq(r2, 1, fl)), e)
            ELSE NaN

StringToNumber(cs) ==
    LET t == Trim(cs)
        signed == t # <<>> /\ Head(t) \in {"+", "-"}
        neg == t # <<>> /\ Head(t) = "-"
        u == IF signed THEN Tail(t) ELSE t
    IN  IF t = <<>> THEN Fin(FALSE, <<0>>, <<>>)
        ELSE IF u = InfinityChars THEN Inf(neg)
        ELSE UnsignedDecimal(neg, u)

\* Number(value), for the value types format is declared to take, and for
\* null and undefined.  Number(bigint) is the nearest double: never NaN.
ToNumber(v) ==
    CASE v.type = "null" -> Fin(FALSE, <<0>>, <<>>)
      [] v.type = "undefined" -> NaN
      [] v.type = "number" -> v
      [] v.type = "bigint" -> Fin(v.neg, v.mag, <<>>)
      [] v.type = "string" -> StringToNumber(v.chars)

NumberIsNaN(v) == IsNumber(v) /\ v.cls = "nan"

\* BigInt(value): [ok |-> TRUE, val |-> bigint], or ok = FALSE when it throws
\* (RangeError for a number that is no integer, SyntaxError for a string that
\* is no integer literal).
Thrown == [ok |-> FALSE]

Returned(v) == [ok |-> TRUE, val |-> v]

NumberToBigInt(v) ==
    IF IsWhole(v) THEN Returned(BigIntV(v.neg /\ v.int # <<0>>, v.int)) ELSE Thrown

StringToBigInt(cs) ==
    LET t == Trim(cs)
        signed == t # <<>> /\ Head(t) \in {"+", "-"}
        neg == t # <<>> /\ Head(t) = "-"
        u == IF signed THEN Tail(t) ELSE t
        mag == CanonInt(CharsToDigits(u))
    IN  IF t = <<>> THEN Returned(BigIntV(FALSE, <<0>>))
        ELSE IF u # <<>> /\ DigitPrefixLen(u) = Len(u)
            THEN Returned(BigIntV(neg /\ mag # <<0>>, mag))
        ELSE Thrown

ToBigInt(v) ==
    CASE v.type = "number" -> NumberToBigInt(v)
      [] v.type = "string" -> StringToBigInt(v.chars)
      [] v.type = "bigint" -> Returned(v)

\* parseInt(string) in radix 10: the sign and the longest digit prefix, or NaN.
\* Its rounding to a double is left out: it is only compared with 1 and 11,
\* which no rounded magnitude above 2^53 equals.
parseInt(cs) ==
    LET t == TrimStart(cs)
        signed == t # <<>> /\ Head(t) \in {"+", "-"}
        neg == t # <<>> /\ Head(t) = "-"
        u == IF signed THEN Tail(t) ELSE t
        l == DigitPrefixLen(u)
    IN  IF l = 0 THEN NaN
        ELSE Fin(neg, CanonInt(CharsToDigits(SubSeq(u, 1, l))), <<>>)

\* a === b on numbers: NaN equals nothing, +0 equals -0.
NumberStrictEquals(a, b) ==
    /\ ~NumberIsNaN(a) /\ ~NumberIsNaN(b)
    /\ \/ a = b
       \/ IsZeroNumber(a) /\ IsZeroNumber(b)

\* a === b: same type and same value.
StrictEquals(a, b) ==
    /\ a.type = b.type
    /\ IF IsNumber(a) THEN NumberStrictEquals(a, b) ELSE a = b

\* value >= 0 and -value, on a bigint or a number (NaN >= 0 is false, -NaN is NaN).
GreaterOrEqualZero(v) ==
    IF IsBigInt(v) THEN ~v.neg
    ELSE ~NumberIsNaN(v) /\ (~v.neg \/ IsZeroNumber(v))

Negate(v) ==
    IF IsBigInt(v) THEN BigIntV(~v.neg /\ v.mag # <<0>>, v.mag)
    ELSE IF NumberIsNaN(v) THEN v
    ELSE [v EXCEPT !.neg = ~v.neg]

BigIntLiteral(k) == BigIntV(FALSE, NatDigits(k))

(***************************************************************************)
(* The tag function n: joins the template's strings and interpolations,    *)
(* writing "n" for an interpolation that is Infinity or -Infinity.         *)
(***************************************************************************)
\* Variant of n: every interpolation is written by String, Infinity too.
RECURSIVE nJoinPlain(_, _, _)
nJoinPlain(strings, interpolations, i) ==
    IF i > Len(interpolations) THEN strings[i]
    ELSE strings[i] \o String(interpolations[i])
            \o nJoinPlain(strings, interpolations, i + 1)

n_NoPlaceholder(strings, interpolations) == nJoinPlain(strings, interpolations, 1)

RECURSIVE nJoin(_, _, _)
nJoin(strings, interpolations, i) ==
    IF i > Len(interpolations) THEN strings[i]
    ELSE strings[i]
            \o (IF interpolations[i] \in {Inf(FALSE), Inf(TRUE)}
                    THEN <<"n">> ELSE String(interpolations[i]))
            \o nJoin(strings, interpolations, i + 1)

n(strings, interpolations) == nJoin(strings, interpolations, 1)

isIntPart(abs, int) ==
    \/ StrictEquals(abs, int)
    \/ NumberStrictEquals(parseInt(String(abs)), ToNumber(int))

(***************************************************************************)
(* The rules of the languages: (abs, positive) -> string.                  *)
(***************************************************************************)
\* Variant of EnSuffix: the last digit alone decides, 11, 12 and 13 included.
EnSuffix_NoTeens(abs) ==
    IF IsNumber(abs) THEN <<"t", "h">>
    ELSE IF ModPow10(abs.mag, 1) = <<1>> THEN <<"s", "t">>
    ELSE IF ModPow10(abs.mag, 1) = <<2>> THEN <<"n", "d">>
    ELSE IF ModPow10(abs.mag, 1) = <<3>> THEN <<"r", "d">>
    ELSE <<"t", "h">>

EnSuffix(abs) ==
    IF IsNumber(abs) THEN <<"t", "h">>
    ELSE IF ModPow10(abs.mag, 1) = <<1>> /\ ModPow10(abs.mag, 2) # <<1, 1>>
        THEN <<"s", "t">>
    ELSE IF ModPow10(abs.mag, 1) = <<2>> /\ ModPow10(abs.mag, 2) # <<1, 2>>
        THEN <<"n", "d">>
    ELSE IF ModPow10(abs.mag, 1) = <<3>> /\ ModPow10(abs.mag, 2) # <<1, 3>>
        THEN <<"r", "d">>
    ELSE <<"t", "h">>

En(abs, positive) ==
    LET suffix == EnSuffix(abs)
        result == n(<<<<>>, <<>>, <<>>>>, <<abs, StrV(suffix)>>)
    IN  IF positive THEN result
        ELSE IF StrictEquals(abs, BigIntLiteral(1)) THEN <<"l", "a", "s", "t">>
        ELSE result \o <<" ", "t", "o", " ", "l", "a", "s", "t">>

\* Variant of Zh: the script is not read, the prefix is always the Hans one.
Zh_AlwaysHans(script, abs, positive) ==
    LET result == n(<<<<"U+7B2C">>, <<>>>>, <<abs>>)
    IN  IF positive THEN result ELSE <<"U+5012", "U+6570">> \o result

Zh(script, abs, positive) ==
    LET result == n(<<<<"U+7B2C">>, <<>>>>, <<abs>>)
        prefix == IF script = "Hant" THEN <<"U+5012", "U+6578">>
                  ELSE <<"U+5012", "U+6570">>
    IN  IF positive THEN result ELSE prefix \o result

Ja(abs, positive) ==
    LET result == n(<<<<>>, <<"U+756A", "U+76EE">>>>, <<abs>>)
    IN  IF positive THEN result
        ELSE IF StrictEquals(abs, BigIntLiteral(1)) THEN <<"U+6700", "U+5F8C">>
        ELSE <<"U+6700", "U+5F8C", "U+304B", "U+3089">> \o result

Ko(abs, positive) ==
    LET result == n(<<<<>>, <<"U+BC88", "U+C9F8">>>>, <<abs>>)
    IN  IF positive THEN result
        ELSE <<"U+B9C8", "U+C9C0", "U+B9C9", "U+C5D0", "U+C11C", " ">> \o result

Vi(abs, positive) ==
    LET result == n(<<<<"t", "h", "U+1EE9", " ">>, <<>>>>, <<abs>>)
    IN  IF positive THEN result
        ELSE result \o <<" ", "U+0111", "U+1EBF", "n", " ", "c", "u", "U+1ED1", "i",
                         " ", "c", "U+00F9", "n", "g">>

IdMs(abs, positive) ==
    IF StrictEquals(abs, BigIntLiteral(1))
        THEN (IF positive THEN <<"p", "e", "r", "t", "a", "m", "a">>
              ELSE <<"t", "e", "r", "a", "k", "h", "i", "r">>)
    ELSE LET result == n(<<<<"k", "e", "-">>, <<>>>>, <<abs>>)
         IN  IF positive THEN result
             ELSE result \o <<" ", "t", "e", "r", "a", "k", "h", "i", "r">>

Fr(abs, positive) ==
    LET suffix == IF StrictEquals(abs, BigIntLiteral(1)) THEN <<"e", "r">>
                  ELSE <<"U+00E8", "m", "e">>
        result == (IF StrictEquals(abs, PosInfinity) THEN <<"n", "i">> ELSE String(abs))
                    \o suffix
    IN  IF positive THEN result
        ELSE result \o <<" ", "a", "v", "a", "n", "t", " ", "d", "e", "r", "n", "i",
                         "e", "r">>

EsPt(isFemale, abs, positive) ==
    LET suffix == IF isFemale THEN <<".", "U+00AA">> ELSE <<".", "U+00BA">>
        result == n(<<<<>>, <<>>, <<>>>>, <<abs, StrV(suffix)>>)
        last == IF isFemale
                    THEN <<"a", " ", "l", "a", " ", "U+00FA", "l", "t", "i", "m", "a">>
                    ELSE <<"a", "l", " ", "U+00FA", "l", "t", "i", "m", "o">>
    IN  IF positive THEN result ELSE result \o <<" ">> \o last

\* Variant of ItArticle: -1 takes the article of 1.
ItArticle_NoLast(isFemale, abs, positive) ==
    IF \/ isIntPart(abs, BigIntLiteral(11))
       \/ StrictEquals(abs, PosInfinity)
       \/ String(abs)[1] = "8"
        THEN <<"l", "U+2019">>
    ELSE IF isFemale THEN <<"l", "a", " ">> ELSE <<"i", "l", " ">>

\* Variant of ItArticle: the class of 11 is taken modulo 100.
ItArticle_Mod100(isFemale, abs, positive) ==
    IF \/ IsBigInt(abs) /\ ModPow10(abs.mag, 2) = <<1, 1>>
       \/ StrictEquals(abs, PosInfinity)
       \/ String(abs)[1] = "8"
       \/ ~positive /\ isIntPart(abs, BigIntLiteral(1))
        THEN <<"l", "U+2019">>
    ELSE IF isFemale THEN <<"l", "a", " ">> ELSE <<"i", "l", " ">>

ItArticle(isFemale, abs, positive) ==
    IF \/ isIntPart(abs, BigIntLiteral(11))
       \/ StrictEquals(abs, PosInfinity)
       \/ String(abs)[1] = "8"
       \/ ~positive /\ isIntPart(abs, BigIntLiteral(1))
        THEN <<"l", "U+2019">>
    ELSE IF isFemale THEN <<"l", "a", " ">> ELSE <<"i", "l", " ">>

It(isFemale, abs, positive) ==
    LET suffixSuperscript == IF isFemale THEN <<"U+00AA">> ELSE <<"U+00BA">>
        suffix == IF isFemale THEN <<"a">> ELSE <<"o">>
        the == ItArticle(isFemale, abs, positive)
        result == IF StrictEquals(abs, PosInfinity)
                    THEN <<"n", "-", "e", "s", "i", "m">> \o suffix
                    ELSE String(abs) \o suffixSuperscript
        last == <<"d", "a", "l", "l", "U+2019", "u", "l", "t", "i", "m">> \o suffix
    IN  the \o (IF positive THEN result
                ELSE IF StrictEquals(abs, BigIntLiteral(1))
                    THEN <<"u", "l", "t", "i", "m">> \o suffix
                ELSE result \o <<" ">> \o last)

De(abs, positive) ==
    LET result == IF StrictEquals(abs, PosInfinity) THEN <<"x", "-", "t", "e">>
                  ELSE String(abs) \o <<".">>
    IN  IF positive THEN result
        ELSE result \o <<" ", "l", "e", "t", "z", "t", "e">>

Ru(abs, positive) ==
    LET result == (IF StrictEquals(abs, PosInfinity) THEN <<"U+043D">> ELSE String(abs))
                    \o <<"-", "U+0439">>
    IN  IF positive THEN result
        ELSE IF StrictEquals(abs, BigIntLiteral(1))
            THEN <<"U+043F", "U+043E", "U+0441", "U+043B", "U+0435", "U+0434", "U+043D",
                   "U+0438", "U+0439">>
        ELSE result \o <<" ", "U+0434", "U+043E", " ", "U+043F", "U+043E", "U+0441",
                         "U+043B", "U+0435", "U+0434", "U+043D", "U+0435", "U+0433",
                         "U+043E">>

\* The languages the switch of ordinal has a case for.
SupportedLanguages ==
    {"en", "zh", "ja", "ko", "vi", "id", "ms", "fr", "es", "pt", "it", "de", "ru"}

\* The handler ordinal passes to f for a supported language.
formatHandler(language, script, isFemale, abs, positive) ==
    CASE language = "en" -> En(abs, positive)
      [] language = "zh" -> Zh(script, abs, positive)
      [] language = "ja" -> Ja(abs, positive)
      [] language = "ko" -> Ko(abs, positive)
      [] language = "vi" -> Vi(abs, positive)
      [] language \in {"id", "ms"} -> IdMs(abs, positive)
      [] language = "fr" -> Fr(abs, positive)
      [] language \in {"es", "pt"} -> EsPt(isFemale, abs, positive)
      [] language = "it" -> It(isFemale, abs, positive)
      [] language = "de" -> De(abs, positive)
      [] language = "ru" -> Ru(abs, positive)

(***************************************************************************)
(* f: the formatter's format function.                                     *)
(***************************************************************************)
Return(chars) == [kind |-> "return", str |-> chars]

\* throw TypeError(`Invalid value: ${value}`)
ThrowInvalidValue(v) ==
    [kind |-> "throw", error |-> "TypeError",
     message |-> <<"I", "n", "v", "a", "l", "i", "d", " ", "v", "a", "l", "u", "e",
                   ":", " ">> \o String(v)]

\* Variant of IsInvalidValue: the NaN test is missing.
IsInvalidValue_NullishOnly(v) == v.type \in {"null", "undefined"}

IsInvalidValue(v) == v.type \in {"null", "undefined"} \/ NumberIsNaN(ToNumber(v))

\* try { value = BigInt(value) } catch { value = Number(value) }
Coerce(v) == IF ToBigInt(v).ok THEN ToBigInt(v).val ELSE ToNumber(v)

\* Variant of Normalize: the value is handed on with its sign.
Normalize_NoAbs(v) ==
    [called |-> TRUE, abs |-> Coerce(v), positive |-> GreaterOrEqualZero(Coerce(v))]

\* What format hands to the handler.
Normalize(v) ==
    LET coerced == Coerce(v)
        positive == GreaterOrEqualZero(coerced)
    IN  [called |-> TRUE,
         abs |-> IF positive THEN coerced ELSE Negate(coerced),
         positive |-> positive]

\* Variant of FormatUnsupported: the value is coerced to a number first.
FormatUnsupported_Coerced(v) == Return(String(ToNumber(v)))

FormatUnsupported(v) == Return(String(v))

FormatSupported(language, script, isFemale, v) ==
    IF IsInvalidValue(v) THEN ThrowInvalidValue(v)
    ELSE Return(formatHandler(language, script, isFemale,
                              Normalize(v).abs, Normalize(v).positive))

\* formatter.format(value)
FormatOf(fm, v) ==
    IF fm.supports THEN FormatSupported(fm.language, fm.script, fm.isFemale, v)
    ELSE FormatUnsupported(v)

HandedOf(fm, v) ==
    IF fm.supports /\ ~IsInvalidValue(v) THEN Normalize(v) ELSE [called |-> FALSE]

(***************************************************************************)
(* ordinal(locale, {gender}).  new Intl.Locale(tag).maximize() belongs to  *)
(* the platform; Maximize lists its result for the tags of the model.      *)
(***************************************************************************)
Subtags(language, script, region) ==
    [language |-> language, script |-> script, region |-> region]

LocaleTags ==
    {"en-US", "en-GB", "zh", "zh-TW", "zh-Hant", "zh-Hans-HK", "ja", "ko-KR", "vi",
     "id", "ms", "fr", "es-ES", "pt", "it", "de-DE", "ru",
     "art-x-myownlanguage", "nl", "th"}

Maximize(tag) ==
    CASE tag = "en-US" -> Subtags("en", "Latn", "US")
      [] tag = "en-GB" -> Subtags("en", "Latn", "GB")
      [] tag = "zh" -> Subtags("zh", "Hans", "CN")
      [] tag = "zh-TW" -> Subtags("zh", "Hant", "TW")
      [] tag = "zh-Hant" -> Subtags("zh", "Hant", "TW")
      [] tag = "zh-Hans-HK" -> Subtags("zh", "Hans", "HK")
      [] tag = "ja" -> Subtags("ja", "Jpan", "JP")
      [] tag = "ko-KR" -> Subtags("ko", "Kore", "KR")
      [] tag = "vi" -> Subtags("vi", "Latn", "VN")
      [] tag = "id" -> Subtags("id", "Latn", "ID")
      [] tag = "ms" -> Subtags("ms", "Latn", "MY")
      [] tag = "fr" -> Subtags("fr", "Latn", "FR")
      [] tag = "es-ES" -> Subtags("es", "Latn", "ES")
      [] tag = "pt" -> Subtags("pt", "Latn", "BR")
      [] tag = "it" -> Subtags("it", "Latn", "IT")
      [] tag = "de-DE" -> Subtags("de", "Latn", "DE")
      [] tag = "ru" -> Subtags("ru", "Cyrl", "RU")
      [] tag = "art-x-myownlanguage" -> Subtags("art", "undefined", "undefined")
      [] tag = "nl" -> Subtags("nl", "Latn", "NL")
      [] tag = "th" -> Subtags("th", "Thai", "TH")

\* The gender option as the caller gives it; "undefined" is an absent option.
GenderOptions == {"male", "female", "undefined"}

\* Variant of GenderDefault: an absent option is female.
GenderDefault_Female(option) == IF option = "undefined" THEN "female" ELSE option

\* { gender = "male" } = {}
GenderDefault(option) == IF option = "undefined" THEN "male" ELSE option

\* The frozen formatter ordinal returns, with what its closure captured.
ordinal(tag, option) ==
    LET locale == Maximize(tag)
        isFemale == GenderDefault(option) = "female"
    IN  [built |-> TRUE,
         tag |-> tag,
         option |-> option,
         supports |-> locale.language \in SupportedLanguages,
         language |-> locale.language,
         script |-> locale.script,
         isFemale |-> isFemale]

(***************************************************************************)
(* The values the caller passes to format.                                 *)
(***************************************************************************)
Minus(neg) == IF neg THEN <<"-">> ELSE <<>>

\* A whole magnitude in its three accepted forms, with either sign.
NumberForms(mag) == {Fin(neg, mag, <<>>) : neg \in BOOLEAN}

BigIntForms(mag) == {BigIntV(neg /\ mag # <<0>>, mag) : neg \in BOOLEAN}

StringForms(mag) == {StrV(Minus(neg) \o DigitsToChars(mag)) : neg \in BOOLEAN}

SmallMagnitudes == {NatDigits(k) : k \in 0..MaxInt}

\* Magnitudes below 2^53 that the rules single out.
SafeMagnitudes ==
    {<<8, 0>>, <<8, 1>>, <<8, 8>>, <<1, 0, 0>>, <<1, 0, 1>>, <<1, 0, 2>>, <<1, 0, 3>>,
     <<1, 1, 1>>, <<1, 1, 2>>, <<1, 1, 3>>, <<1, 2, 8>>, <<2, 1, 1>>, <<8, 0, 0>>,
     <<8, 1, 1>>, <<1, 0, 1, 1>>, <<8, 0, 0, 0>>}

\* 2^53 + 1, and 30-digit integers ending in 11, 21, 02 and 13.
ThirtyDigits(last2) ==
    <<1, 2, 3, 4, 5, 6, 7, 8, 9, 0, 1, 2, 3, 4, 5, 6, 7, 8, 9, 0, 1, 2, 3, 4, 5, 6, 7, 8>>
        \o last2

HugeMagnitudes ==
    {<<9, 0, 0, 7, 1, 9, 9, 2, 5, 4, 7, 4, 0, 9, 9, 3>>,
     ThirtyDigits(<<1, 1>>), ThirtyDigits(<<2, 1>>), ThirtyDigits(<<0, 2>>),
     ThirtyDigits(<<1, 3>>), ThirtyDigits(<<2, 3>>),
     <<8>> \o ThirtyDigits(<<0, 0>>)}

\* 10^21 and 10^22 are doubles: whole numbers of type number above 2^53.
HugeDoubles == {<<1>> \o Zeros(21), <<1>> \o Zeros(22), <<8>> \o Zeros(21)}

WholeInputs ==
    UNION {NumberForms(m) \cup BigIntForms(m) \cup StringForms(m) :
                m \in SmallMagnitudes \cup SafeMagnitudes}
      \cup UNION {BigIntForms(m) \cup StringForms(m) : m \in HugeMagnitudes}
      \cup UNION {NumberForms(m) : m \in HugeDoubles}

\* Numbers that are no whole number.
OtherNumbers ==
    {NaN, Inf(FALSE), Inf(TRUE)}
      \cup {Fin(neg, int, frac) :
                neg \in BOOLEAN,
                int \in {<<0>>, <<1>>, <<8>>, <<1, 1>>, <<1, 1, 1>>},
                frac \in {<<5>>, <<2, 5>>}}
      \cup {Fin(neg, <<0>>, Zeros(6) \o <<1>>) : neg \in BOOLEAN}

\* Strings that are no plain integer literal, or none at all.
OtherStrings ==
    {StrV(cs) : cs \in
        {<<>>, <<" ">>, <<" ", "1", "2", " ">>, <<"+", "5">>, <<"0", "0", "7">>,
         <<"1", ".", "0">>, <<"-", "1", ".", "0">>, <<"1", "e", "0">>,
         <<"-", "1", "e", "0">>, <<"1", ".">>, <<"2", ".", "0">>, <<"3", "e", "0">>,
         <<"1", "1", ".", "0">>, <<"8", ".", "0">>, <<"1", "e", "1">>,
         <<"1", "1", "0", "e", "-", "1">>, <<"0", ".", "0">>, <<"-", "0", ".", "0">>,
         <<"1", ".", "5">>, <<"-", "1", ".", "5">>, <<".", "5">>,
         <<"1", "e", "2", "1">>, <<"-", "1", "e", "2", "1">>, <<"1", "E", "-", "7">>,
         InfinityChars, <<"-">> \o InfinityChars, <<"+">> \o InfinityChars,
         <<"N", "a", "N">>, <<"a", "b", "c">>, <<"1", "2", "n">>, <<"-">>, <<".">>,
         <<"1", "e">>, <<"1", " ", "2">>, <<"-", "-", "1">>}}

Inputs == WholeInputs \cup OtherNumbers \cup OtherStrings \cup {Null, Undefined}

(***************************************************************************)
(* The caller: builds a formatter, calls format, reads the outcome.        *)
(***************************************************************************)
NoFormatter == [built |-> FALSE]

NotCalled == [called |-> FALSE]

NoOutcome == [kind |-> "none"]

Init ==
    /\ formatter = NoFormatter
    /\ value = Undefined
    /\ handed = NotCalled
    /\ outcome = NoOutcome

\* const formatter = ordinal(tag, { gender: option })
Construct(tag, option) ==
    /\ ~formatter.built
    /\ formatter' = ordinal(tag, option)
    /\ UNCHANGED <<value, handed, outcome>>

\* formatter.format(v): returns a string or throws.
Format(v) ==
    /\ formatter.built
    /\ outcome = NoOutcome
    /\ value' = v
    /\ handed' = HandedOf(formatter, v)
    /\ outcome' = FormatOf(formatter, v)
    /\ UNCHANGED formatter

\* The caller has read the outcome; the frozen formatter is as it was.
Continue ==
    /\ outcome # NoOutcome
    /\ value' = Undefined
    /\ handed' = NotCalled
    /\ outcome' = NoOutcome
    /\ UNCHANGED formatter

\* The caller drops the formatter; the next call of ordinal builds a new one.
Discard ==
    /\ formatter.built
    /\ outcome = NoOutcome
    /\ formatter' = NoFormatter
    /\ UNCHANGED <<value, handed, outcome>>

Next ==
    \/ \E tag \in LocaleTags, option \in GenderOptions : Construct(tag, option)
    \/ \E v \in Inputs : Format(v)
    \/ Continue
    \/ Discard

Spec == Init /\ [][Next]_vars

(***************************************************************************)
(* Vocabulary of the properties: what the documentation says of a call,    *)
(* stated without the rules above.                                         *)
(***************************************************************************)
Called == outcome # NoOutcome

ReturnedString == outcome.kind = "return"

ThrewInvalidValue == outcome.kind = "throw" /\ outcome.error = "TypeError"

\* v is null, undefined, or a value whose numeric coercion is NaN.
NotNumeric(v) == v.type \in {"null", "undefined"} \/ NumberIsNaN(ToNumber(v))

\* A string that writes an integer in plain decimal digits, "-" allowed.
IsIntegerLiteral(cs) ==
    LET u == IF cs # <<>> /\ Head(cs) = "-" THEN Tail(cs) ELSE cs
    IN  /\ u # <<>>
        /\ \A i \in 1..Len(u) : IsDigitChar(u[i])
        /\ Len(u) > 1 => u[1] # "0"

\* v carries an exact integer: a whole number, a bigint or an integer literal.
IsExactInteger(v) ==
    \/ IsNumber(v) /\ IsWhole(v)
    \/ IsBigInt(v)
    \/ v.type = "string" /\ IsIntegerLiteral(v.chars)

IntegerMag(v) ==
    CASE IsNumber(v) -> v.int
      [] IsBigInt(v) -> v.mag
      [] v.type = "string" ->
            CharsToDigits(IF Head(v.chars) = "-" THEN Tail(v.chars) ELSE v.chars)

IntegerNeg(v) ==
    /\ IntegerMag(v) # <<0>>
    /\ CASE IsNumber(v) -> v.neg
         [] IsBigInt(v) -> v.neg
         [] v.type = "string" -> Head(v.chars) = "-"

\* The same integer in the same form, with the sign given.
WithSign(v, neg) ==
    CASE IsNumber(v) -> Fin(neg, v.int, <<>>)
      [] IsBigInt(v) -> BigIntV(neg, v.mag)
      [] v.type = "string" -> StrV(Minus(neg) \o DigitsToChars(IntegerMag(v)))

IsInfinite(v) ==
    \/ IsNumber(v) /\ v.cls = "inf"
    \/ v.type = "string" /\ v.chars \in {InfinityChars, <<"-">> \o InfinityChars}

InfiniteNeg(v) == IF IsNumber(v) THEN v.neg ELSE Head(v.chars) = "-"

LastDigit(mag) == mag[Len(mag)]

TensDigit(mag) == IF Len(mag) >= 2 THEN mag[Len(mag) - 1] ELSE 0

StartsWith(str, prefix) ==
    Len(str) >= Len(prefix) /\ SubSeq(str, 1, Len(prefix)) = prefix

HasDigit(str) == \E i \in 1..Len(str) : IsDigitChar(str[i])

\* The documented "to last" marker of each language.
ToLastMarker(language, script, isFemale) ==
    CASE language = "en" -> <<" ", "t", "o", " ", "l", "a", "s", "t">>
      [] language = "zh" ->
            (IF script = "Hant" THEN <<"U+5012", "U+6578">> ELSE <<"U+5012", "U+6570">>)
      [] language = "ja" -> <<"U+6700", "U+5F8C", "U+304B", "U+3089">>
      [] language = "ko" -> <<"U+B9C8", "U+C9C0", "U+B9C9", "U+C5D0", "U+C11C", " ">>
      [] language = "vi" ->
            <<" ", "U+0111", "U+1EBF", "n", " ", "c", "u", "U+1ED1", "i", " ", "c",
              "U+00F9", "n", "g">>
      [] language \in {"id", "ms"} -> <<" ", "t", "e", "r", "a", "k", "h", "i", "r">>
      [] language = "fr" ->
            <<" ", "a", "v", "a", "n", "t", " ", "d", "e", "r", "n", "i", "e", "r">>
      [] language \in {"es", "pt"} ->
            (IF isFemale
                THEN <<" ", "a", " ", "l", "a", " ", "U+00FA", "l", "t", "i", "m", "a">>
                ELSE <<" ", "a", "l", " ", "U+00FA", "l", "t", "i", "m", "o">>)
      [] language = "it" ->
            <<" ", "d", "a", "l", "l", "U+2019", "u", "l", "t", "i", "m">>
                \o (IF isFemale THEN <<"a">> ELSE <<"o">>)
      [] language = "de" -> <<" ", "l", "e", "t", "z", "t", "e">>
      [] language = "ru" ->
            <<" ", "U+0434", "U+043E", " ", "U+043F", "U+043E", "U+0441", "U+043B",
              "U+0435", "U+0434", "U+043D", "U+0435", "U+0433", "U+043E">>

\* zh, ja and ko put the marker in front, the others behind.
WithToLast(fm, str) ==
    IF fm.language \in {"zh", "ja", "ko"}
        THEN ToLastMarker(fm.language, fm.script, fm.isFemale) \o str
        ELSE str \o ToLastMarker(fm.language, fm.script, fm.isFemale)

\* The documented placeholder ("nth") of each language.
Placeholder(language, isFemale) ==
    CASE language = "en" -> <<"n", "t", "h">>
      [] language = "zh" -> <<"U+7B2C", "n">>
      [] language = "ja" -> <<"n", "U+756A", "U+76EE">>
      [] language = "ko" -> <<"n", "U+BC88", "U+C9F8">>
      [] language = "vi" -> <<"t", "h", "U+1EE9", " ", "n">>
      [] language \in {"id", "ms"} -> <<"k", "e", "-", "n">>
      [] language = "fr" -> <<"n", "i", "U+00E8", "m", "e">>
      [] language \in {"es", "pt"} ->
            <<"n", ".">> \o (IF isFemale THEN <<"U+00AA">> ELSE <<"U+00BA">>)
      [] language = "it" ->
            <<"l", "U+2019", "n", "-", "e", "s", "i", "m">>
                \o (IF isFemale THEN <<"a">> ELSE <<"o">>)
      [] language = "de" -> <<"x", "-", "t", "e">>
      [] language = "ru" -> <<"U+043D", "-", "U+0439">>

\* The documented irregular word for the last element.
LastWord(language, isFemale) ==
    CASE language = "en" -> <<"l", "a", "s", "t">>
      [] language = "ja" -> <<"U+6700", "U+5F8C">>
      [] language \in {"id", "ms"} -> <<"t", "e", "r", "a", "k", "h", "i", "r">>
      [] language = "it" ->
            <<"l", "U+2019", "u", "l", "t", "i", "m">>
                \o (IF isFemale THEN <<"a">> ELSE <<"o">>)
      [] language = "ru" ->
            <<"U+043F", "U+043E", "U+0441", "U+043B", "U+0435", "U+0434", "U+043D",
              "U+0438", "U+0439">>

LanguagesWithLastWord == {"en", "ja", "id", "ms", "it", "ru"}

DocumentedLanguages ==
    {"en", "zh", "ja", "ko", "vi", "id", "ms", "fr", "es", "pt", "it", "de", "ru"}

\* The input value is below zero (-0 is not).
IsBelowZero(v) ==
    IF IsBigInt(v) THEN v.neg ELSE ToNumber(v).neg /\ ~IsZeroNumber(ToNumber(v))

\* A string BigInt reads: an optional sign and decimal digits, spaces around
\* them allowed, or nothing but spaces.
IsBigIntLiteral(cs) ==
    LET t == Trim(cs)
        u == IF t # <<>> /\ Head(t) \in {"+", "-"} THEN Tail(t) ELSE t
    IN  t = <<>> \/ (u # <<>> /\ \A i \in 1..Len(u) : IsDigitChar(u[i]))

AcceptedByBigInt(v) ==
    \/ IsNumber(v) /\ IsWhole(v)
    \/ IsBigInt(v)
    \/ v.type = "string" /\ IsBigIntLiteral(v.chars)

\* The Italian article, and what follows it for an exact integer.
ItalianArticle(elided, isFemale) ==
    IF elided THEN <<"l", "U+2019">>
    ELSE IF isFemale THEN <<"l", "a", " ">> ELSE <<"i", "l", " ">>

ItalianBody(mag, neg, isFemale) ==
    IF neg /\ mag = <<1>> THEN <<"u", "l", "t", "i", "m">> \o (IF isFemale THEN <<"a">> ELSE <<"o">>)
    ELSE DigitsToChars(mag) \o (IF isFemale THEN <<"U+00AA">> ELSE <<"U+00BA">>)
            \o (IF neg THEN ToLastMarker("it", "Latn", isFemale) ELSE <<>>)

(***************************************************************************)
(* C1.  As stated: for every locale, supported or not, format(null),       *)
(* format(undefined) and format(v) with v coercing to NaN fail with the    *)
(* invalid-value error instead of returning a string.                      *)
(***************************************************************************)
C1_InvalidValueEveryLocale ==
    (Called /\ NotNumeric(value)) => ThrewInvalidValue

(***************************************************************************)
(* C1 as amended: for every locale whose language is supported, format of  *)
(* null, of undefined and of a value coercing to NaN fails with the        *)
(* invalid-value error; for an unsupported locale format returns the       *)
(* string form of that value ("null", "undefined", "NaN").                 *)
(***************************************************************************)
C1_InvalidValueSupported ==
    (Called /\ NotNumeric(value)) =>
        IF formatter.language \in DocumentedLanguages
            THEN ThrewInvalidValue
            ELSE ReturnedString /\ outcome.str = String(value)

C1_Witness ==
    /\ formatter.built /\ formatter.language = "ko"
    /\ value = Null
    /\ ThrewInvalidValue

(***************************************************************************)
(* C2.  For every locale whose maximized language is none of the thirteen  *)
(* documented ones, supports is false and format(v) returns the plain      *)
(* string form of v, without raising, for every numeric-coercible v.       *)
(***************************************************************************)
C2_UnsupportedEchoes ==
    (formatter.built /\ formatter.language \notin DocumentedLanguages) =>
        /\ formatter.supports = FALSE
        /\ (Called /\ ~NotNumeric(value)) =>
                /\ ReturnedString
                /\ outcome.str = String(value)
                /\ value.type = "string" => outcome.str = value.chars
                /\ IsBigInt(value) =>
                        outcome.str = Minus(value.neg) \o DigitsToChars(value.mag)
                /\ (IsNumber(value) /\ value.cls = "inf") =>
                        outcome.str = Minus(value.neg) \o InfinityChars
                /\ (IsNumber(value) /\ IsWhole(value) /\ Len(value.int) <= 21) =>
                        outcome.str = Minus(value.neg /\ value.int # <<0>>)
                                        \o DigitsToChars(value.int)

C2_Witness ==
    /\ formatter.built /\ formatter.tag = "art-x-myownlanguage"
    /\ ~formatter.supports
    /\ value = Inf(TRUE)
    /\ outcome = Return(<<"-">> \o InfinityChars)

(***************************************************************************)
(* C3.  For an English locale and every exact integer n >= 0, given as a   *)
(* number or as a bigint of any size, format(n) is the decimal digits of n *)
(* followed by "st" when n mod 10 = 1 and n mod 100 /= 11, "nd" when       *)
(* n mod 10 = 2 and n mod 100 /= 12, "rd" when n mod 10 = 3 and            *)
(* n mod 100 /= 13, and "th" otherwise.                                    *)
(***************************************************************************)
C3_EnglishSuffix ==
    (/\ Called
     /\ formatter.language = "en"
     /\ (IsNumber(value) /\ IsWhole(value)) \/ IsBigInt(value)
     /\ ~IntegerNeg(value)) =>
        LET mag == IntegerMag(value)
            suffix == IF LastDigit(mag) = 1 /\ TensDigit(mag) # 1 THEN <<"s", "t">>
                      ELSE IF LastDigit(mag) = 2 /\ TensDigit(mag) # 1 THEN <<"n", "d">>
                      ELSE IF LastDigit(mag) = 3 /\ TensDigit(mag) # 1 THEN <<"r", "d">>
                      ELSE <<"t", "h">>
        IN  /\ outcome = Return(DigitsToChars(mag) \o suffix)
            /\ mag \in {<<0>>, <<1, 1>>, <<1, 2>>, <<1, 3>>, <<1, 1, 1>>, <<1, 1, 2>>,
                        <<1, 1, 3>>, ThirtyDigits(<<1, 1>>)}
                    => outcome.str = DigitsToChars(mag) \o <<"t", "h">>

C3_Witness ==
    /\ formatter.built /\ formatter.language = "en"
    /\ value = BigIntV(FALSE, ThirtyDigits(<<1, 1>>))
    /\ outcome = Return(DigitsToChars(ThirtyDigits(<<1, 1>>)) \o <<"t", "h">>)

(***************************************************************************)
(* C4.  For every supported language and either gender, format(Infinity)   *)
(* returns the language's placeholder and format(-Infinity) the            *)
(* placeholder with the language's "to last" marker; neither raises, and   *)
(* neither is the irregular "last" word.                                   *)
(***************************************************************************)
C4_Placeholders ==
    (/\ Called
     /\ formatter.language \in DocumentedLanguages
     /\ IsInfinite(value)) =>
        /\ ReturnedString
        /\ outcome.str =
                IF InfiniteNeg(value)
                    THEN WithToLast(formatter,
                                    Placeholder(formatter.language, formatter.isFemale))
                    ELSE Placeholder(formatter.language, formatter.isFemale)
        /\ formatter.language \in LanguagesWithLastWord =>
                outcome.str # LastWord(formatter.language, formatter.isFemale)

C4_Witness ==
    /\ formatter.built /\ formatter.language = "it" /\ formatter.isFemale
    /\ value = Inf(TRUE)
    /\ outcome = Return(<<"l", "U+2019", "n", "-", "e", "s", "i", "m", "a", " ", "d", "a",
                          "l", "l", "U+2019", "u", "l", "t", "i", "m", "a">>)

(***************************************************************************)
(* C5.  format(-1) returns the irregular "last" word, with no digit in it, *)
(* in every language that defines one: en, ja, id, ms, it (by gender), ru. *)
(***************************************************************************)
C5_LastWord ==
    (/\ Called
     /\ formatter.language \in LanguagesWithLastWord
     /\ IsExactInteger(value)
     /\ IntegerNeg(value) /\ IntegerMag(value) = <<1>>) =>
        /\ outcome = Return(LastWord(formatter.language, formatter.isFemale))
        /\ ~HasDigit(outcome.str)

C5_Witness ==
    /\ formatter.built /\ formatter.language = "it" /\ formatter.isFemale
    /\ value = Fin(TRUE, <<1>>, <<>>)
    /\ outcome = Return(<<"l", "U+2019", "u", "l", "t", "i", "m", "a">>)

(***************************************************************************)
(* C6.  For every supported language, either gender and every exact        *)
(* integer n > 1, format(-n) is format(n) with the language's "to last"    *)
(* marker attached (in front for zh, ja, ko; behind for the others); the   *)
(* same holds at n = 1 for zh, ko, vi, fr, es, pt, de.                     *)
(***************************************************************************)
C6_ToLastOfPositive ==
    (/\ Called
     /\ formatter.language \in DocumentedLanguages
     /\ IsExactInteger(value)
     /\ IntegerNeg(value)
     /\ \/ IntegerMag(value) # <<1>>
        \/ formatter.language \in {"zh", "ko", "vi", "fr", "es", "pt", "de"}) =>
        /\ ReturnedString
        /\ FormatOf(formatter, WithSign(value, FALSE)).kind = "return"
        /\ outcome.str =
                WithToLast(formatter, FormatOf(formatter, WithSign(value, FALSE)).str)

C6_Witness ==
    /\ formatter.built /\ formatter.language = "zh" /\ formatter.script = "Hant"
    /\ value = BigIntV(TRUE, <<1, 2, 8>>)
    /\ outcome = Return(<<"U+5012", "U+6578", "U+7B2C", "1", "2", "8">>)

(***************************************************************************)
(* C7.  The gender option affects only es, pt and it: for every other      *)
(* locale and every value, the formatters built with "female", with "male" *)
(* and with no gender return the same string or fail the same way.  For es *)
(* and pt, no gender is male, and female and male differ exactly in the    *)
(* suffix (".U+00AA" against ".U+00BA") and in the negative marker.        *)
(***************************************************************************)
C7_GenderOnlyRomance ==
    Called =>
        /\ formatter.language \notin {"es", "pt", "it"} =>
                \A option \in GenderOptions :
                    FormatOf(ordinal(formatter.tag, option), value) = outcome
        /\ FormatOf(ordinal(formatter.tag, "undefined"), value)
                = FormatOf(ordinal(formatter.tag, "male"), value)
        /\ (formatter.language \in {"es", "pt"} /\ IsExactInteger(value)) =>
                LET female == FormatOf(ordinal(formatter.tag, "female"), value)
                    male == FormatOf(ordinal(formatter.tag, "male"), value)
                    digits == DigitsToChars(IntegerMag(value))
                IN  /\ female = Return(digits \o <<".", "U+00AA">>
                            \o (IF IntegerNeg(value)
                                    THEN ToLastMarker(formatter.language, "Latn", TRUE)
                                    ELSE <<>>))
                    /\ male = Return(digits \o <<".", "U+00BA">>
                            \o (IF IntegerNeg(value)
                                    THEN ToLastMarker(formatter.language, "Latn", FALSE)
                                    ELSE <<>>))

C7_Witness ==
    /\ formatter.built /\ formatter.tag = "es-ES" /\ formatter.option = "female"
    /\ value = Fin(FALSE, <<5>>, <<>>)
    /\ outcome = Return(<<"5", ".", "U+00AA">>)
    /\ FormatOf(ordinal("es-ES", "undefined"), value) = Return(<<"5", ".", "U+00BA">>)

C10_SameResultEveryForm ==
    (/\ Called
     /\ formatter.language \in DocumentedLanguages
     /\ value.type \in {"number", "bigint", "string"}
     /\ IsWhole(ToNumber(value))) =>
        outcome = FormatOf(formatter,
                           BigIntV(IsBelowZero(value), ToNumber(value).int))

====
